---- MODULE Spec2Model ----
(***************************************************************************)
(* WebdevClient (src/app/lib/webdev-client.ts): an S3-shaped client that   *)
(* speaks WebDAV.  Strings are sequences of one-character strings; an      *)
(* optional value (a regex match, a header, config.basePath) is a sequence *)
(* of zero or one elements.  An async method is split at its awaits: the   *)
(* call up to fetch(), the settling of fetch(), the settling of            *)
(* response.text().                                                        *)
(***************************************************************************)
EXTENDS Integers, Sequences, FiniteSets, TLC

VARIABLES config, pc, op, args, requests, response, outcome

vars == <<config, pc, op, args, requests, response, outcome>>

(* ------------------------------ bounds --------------------------------- *)

MaxKeyLen == 3

MaxEntries == 2

(* ------------------------------ strings -------------------------------- *)

Str0 == << >>

PathAlphabet == {"/", "a"}

RECURSIVE StrsOfLen(_)
StrsOfLen(n) ==
  IF n = 0 THEN {Str0}
  ELSE {Append(s, c) : s \in StrsOfLen(n - 1), c \in PathAlphabet}

Strs(n) == UNION {StrsOfLen(k) : k \in 0..n}

StartsWith(s, p) == Len(s) >= Len(p) /\ SubSeq(s, 1, Len(p)) = p

EndsWith(s, p) == Len(s) >= Len(p) /\ SubSeq(s, Len(s) - Len(p) + 1, Len(s)) = p

\* s.replace(/^\//, "")
StripLeadingSlash(s) == IF StartsWith(s, <<"/">>) THEN Tail(s) ELSE s

\* s.replace(/\/$/, "")
StripTrailingSlash(s) ==
  IF EndsWith(s, <<"/">>) THEN SubSeq(s, 1, Len(s) - 1) ELSE s

\* s.replace(/^\/|\/$/g, ""): the global scan removes a "/" at index 0, then,
\* scanning on from index 1, a "/" that is the last character.
StripBothSlashes(s) ==
  LET t == StripLeadingSlash(s)
  IN  IF t # s THEN StripTrailingSlash(t) ELSE StripTrailingSlash(s)

\* s.replace(/pat/g, rep) for a literal pattern: leftmost, non-overlapping.
RECURSIVE ReplaceAll(_, _, _)
ReplaceAll(s, pat, rep) ==
  IF Len(s) < Len(pat) THEN s
  ELSE IF SubSeq(s, 1, Len(pat)) = pat
       THEN rep \o ReplaceAll(SubSeq(s, Len(pat) + 1, Len(s)), pat, rep)
       ELSE <<Head(s)>> \o ReplaceAll(Tail(s), pat, rep)

Contains(s, p) == \E i \in 1..(Len(s) - Len(p) + 1) : SubSeq(s, i, i + Len(p) - 1) = p

(* ------------------------------- paths --------------------------------- *)

\* this.config.basePath?.replace(/^\/|\/$/g, "") || ""
NormBasePath(bp) == IF bp = << >> THEN Str0 ELSE StripBothSlashes(bp[1])

\* A resolver that forgets to strip the key's leading separator.
getFullPathKeepSlash(bp, path) ==
  LET basePath == NormBasePath(bp)
  IN  IF basePath # Str0 THEN basePath \o <<"/">> \o path ELSE path

\* A resolver that forgets the basePath.
getFullPathNoBase(bp, path) == StripLeadingSlash(path)

\* getFullPath(path), with this.config.basePath as bp.
getFullPath(bp, path) ==
  LET basePath == NormBasePath(bp)
      cleanPath == StripLeadingSlash(path)
  IN  IF basePath # Str0 THEN basePath \o <<"/">> \o cleanPath ELSE cleanPath

normalizeEndpoint(endpoint) == StripTrailingSlash(endpoint)

getBasicAuth(cfg) == <<"Basic", cfg.username, cfg.password>>

\* `${endpoint}/${fullKey}`
UrlOf(cfg, fullKey) == normalizeEndpoint(cfg.endpoint) \o <<"/">> \o fullKey

(* --------------------------- text decoding ----------------------------- *)

AMP == <<"&", "a", "m", "p", ";">>

LT == <<"&", "l", "t", ";">>

GT == <<"&", "g", "t", ";">>

QUOT == <<"&", "q", "u", "o", "t", ";">>

APOS == <<"&", "a", "p", "o", "s", ";">>

\* decodeXml: five global replacements applied one after the other, &amp; first.
decodeXml(str) ==
  ReplaceAll(
    ReplaceAll(
      ReplaceAll(
        ReplaceAll(
          ReplaceAll(str, AMP, <<"&">>),
          LT, <<"<">>),
        GT, <<">">>),
      QUOT, <<"\"">>),
    APOS, <<"'">>)

HexDigits == <<"0", "1", "2", "3", "4", "5", "6", "7", "8", "9",
               "A", "B", "C", "D", "E", "F">>

HexLower == <<"0", "1", "2", "3", "4", "5", "6", "7", "8", "9",
              "a", "b", "c", "d", "e", "f">>

IsHex(c) == \E i \in 1..16 : HexDigits[i] = c \/ HexLower[i] = c

HexVal(c) == (CHOOSE i \in 1..16 : HexDigits[i] = c \/ HexLower[i] = c) - 1

\* The printable ASCII characters, code 32 at index 1 (code 96, the grave
\* accent, is written "grave").
AsciiPrintable ==
  <<" ", "!", "\"", "#", "$", "%", "&", "'", "(", ")", "*", "+", ",", "-", ".", "/",
    "0", "1", "2", "3", "4", "5", "6", "7", "8", "9", ":", ";", "<", "=", ">", "?",
    "@", "A", "B", "C", "D", "E", "F", "G", "H", "I", "J", "K", "L", "M", "N", "O",
    "P", "Q", "R", "S", "T", "U", "V", "W", "X", "Y", "Z", "[", "\\", "]", "^", "_",
    "grave", "a", "b", "c", "d", "e", "f", "g", "h", "i", "j", "k", "l", "m", "n", "o",
    "p", "q", "r", "s", "t", "u", "v", "w", "x", "y", "z", "{", "|", "}", "~">>

\* decodeURIComponent(s): [ok |-> FALSE] stands for the URIError it throws.  A
\* "%" needs two hex digits after it; an escape for a printable ASCII byte
\* decodes to that character.  A byte outside that range is taken as malformed:
\* the modelled hrefs hold no control characters and no multi-byte sequences.
RECURSIVE DecodeEscapes(_, _)
DecodeEscapes(s, acc) ==
  IF s = << >> THEN [ok |-> TRUE, val |-> acc]
  ELSE IF Head(s) # "%" THEN DecodeEscapes(Tail(s), Append(acc, Head(s)))
  ELSE IF Len(s) < 3 \/ ~IsHex(s[2]) \/ ~IsHex(s[3]) THEN [ok |-> FALSE, val |-> Str0]
  ELSE IF 16 * HexVal(s[2]) + HexVal(s[3]) < 32 \/ 16 * HexVal(s[2]) + HexVal(s[3]) > 126
       THEN [ok |-> FALSE, val |-> Str0]
  ELSE DecodeEscapes(SubSeq(s, 4, Len(s)),
                     Append(acc, AsciiPrintable[16 * HexVal(s[2]) + HexVal(s[3]) - 31]))

decodeURIComponent(s) == DecodeEscapes(s, Str0)

\* What parseInt gives for a text with no leading digits (NaN).
NaN == -1

IsDigit(c) == \E i \in 1..10 : HexDigits[i] = c

RECURSIVE DigitsValue(_, _)
DigitsValue(s, acc) ==
  IF s = << >> \/ ~IsDigit(Head(s)) THEN acc
  ELSE DigitsValue(Tail(s), 10 * acc + HexVal(Head(s)))

\* parseInt(s, 10) on unsigned text: the value of the leading digits, else NaN.
parseInt(s) ==
  IF s = << >> \/ ~IsDigit(Head(s)) THEN NaN ELSE DigitsValue(s, 0)

(* ----------------------------- collation ------------------------------- *)

Lower == <<"a", "b", "c", "d", "e", "f", "g", "h", "i", "j", "k", "l", "m",
           "n", "o", "p", "q", "r", "s", "t", "u", "v", "w", "x", "y", "z">>

Upper == <<"A", "B", "C", "D", "E", "F", "G", "H", "I", "J", "K", "L", "M",
           "N", "O", "P", "Q", "R", "S", "T", "U", "V", "W", "X", "Y", "Z">>

IsUpper(c) == \E i \in 1..26 : Upper[i] = c

IsLetter(c) == \E i \in 1..26 : Upper[i] = c \/ Lower[i] = c

\* Primary collation weight: a letter by its place in the alphabet whatever its
\* case, after every other character (by ASCII code).
Primary(c) ==
  IF IsLetter(c)
  THEN 200 + (CHOOSE i \in 1..26 : Upper[i] = c \/ Lower[i] = c)
  ELSE IF \E i \in 1..95 : AsciiPrintable[i] = c
       THEN CHOOSE i \in 1..95 : AsciiPrintable[i] = c
       ELSE 0

RECURSIVE ComparePrimary(_, _)
ComparePrimary(a, b) ==
  IF a = << >> THEN (IF b = << >> THEN 0 ELSE -1)
  ELSE IF b = << >> THEN 1
  ELSE IF Primary(Head(a)) < Primary(Head(b)) THEN -1
  ELSE IF Primary(Head(a)) > Primary(Head(b)) THEN 1
  ELSE ComparePrimary(Tail(a), Tail(b))

RECURSIVE CompareCase(_, _)
CompareCase(a, b) ==
  IF a = << >> \/ b = << >> THEN 0
  ELSE IF IsUpper(Head(a)) = IsUpper(Head(b)) THEN CompareCase(Tail(a), Tail(b))
  ELSE IF IsUpper(Head(b)) THEN -1 ELSE 1

\* a.localeCompare(b): letters compare by alphabet first and by case only to
\* break a tie, lower case first ("a" < "A" < "b").
localeCompare(a, b) ==
  LET p == ComparePrimary(a, b) IN IF p # 0 THEN p ELSE CompareCase(a, b)

(* ------------------------- the listing parse --------------------------- *)

Collection == <<"c", "o", "l", "l", "e", "c", "t", "i", "o", "n">>

\* "application/octet-stream", as one token.
OctetStream == <<"application/octet-stream">>

\* A comparator that forgets the directory test.
CompareObjectsByName(a, b) == localeCompare(a.name, b.name)

\* The comparator handed to objects.sort.
CompareObjects(a, b) ==
  IF a.isDirectory # b.isDirectory
  THEN (IF a.isDirectory THEN -1 ELSE 1)
  ELSE localeCompare(a.name, b.name)

\* x placed after every element of the sorted s that does not come after it.
RECURSIVE InsertSorted(_, _)
InsertSorted(s, x) ==
  IF s = << >> THEN <<x>>
  ELSE IF CompareObjects(s[Len(s)], x) <= 0 THEN Append(s, x)
  ELSE Append(InsertSorted(SubSeq(s, 1, Len(s) - 1), x), s[Len(s)])

\* Array.prototype.sort with a consistent comparator: a stable sort.
RECURSIVE SortObjects(_)
SortObjects(s) ==
  IF s = << >> THEN << >>
  ELSE InsertSorted(SortObjects(SubSeq(s, 1, Len(s) - 1)), s[Len(s)])

\* The test that an entry is the listed directory itself.
IsCurrentPath(decodedHref, fullPrefix) ==
  LET expectedCurrent == StripLeadingSlash(fullPrefix)
  IN  decodedHref = expectedCurrent \/ decodedHref = expectedCurrent \o <<"/">>

\* One pass of the while loop over a <D:response> block.  Each field of the
\* block is the result of its regex match: << >> for no match, else <<text>>.
EntryStep(entry, fullPrefix) ==
  IF entry.href = << >> THEN [act |-> "continue"]
  ELSE
    LET href == decodeXml(entry.href[1])
        isDirectory == entry.resourcetype # << >>
                       /\ Contains(entry.resourcetype[1], Collection)
        displayName == IF entry.displayname # << >>
                       THEN decodeXml(entry.displayname[1]) ELSE Str0
        size == IF entry.getcontentlength # << >>
                THEN parseInt(entry.getcontentlength[1]) ELSE 0
        lastModified == IF entry.getlastmodified # << >>
                        THEN decodeXml(entry.getlastmodified[1]) ELSE Str0
        decoded == decodeURIComponent(href)
    IN  IF displayName = Str0 THEN [act |-> "continue"]
        ELSE IF ~decoded.ok THEN [act |-> "throw"]
        ELSE IF IsCurrentPath(StripLeadingSlash(decoded.val), fullPrefix)
             THEN [act |-> "continue"]
        ELSE [act |-> "push",
              object |-> [key |-> displayName, name |-> displayName,
                          size |-> IF isDirectory THEN 0 ELSE size,
                          lastModified |-> lastModified,
                          isDirectory |-> isDirectory]]

URIError == [what |-> "URI malformed", status |-> << >>, text |-> << >>]

RECURSIVE ParseEntries(_, _, _, _)
ParseEntries(xml, fullPrefix, objects, prefixes) ==
  IF xml = << >>
  THEN [threw |-> FALSE,
        value |-> [objects |-> SortObjects(objects), prefixes |-> prefixes,
                   isTruncated |-> FALSE, nextContinuationToken |-> << >>]]
  ELSE LET step == EntryStep(Head(xml), fullPrefix)
       IN  IF step.act = "throw" THEN [threw |-> TRUE, error |-> URIError]
           ELSE IF step.act = "continue"
                THEN ParseEntries(Tail(xml), fullPrefix, objects, prefixes)
           ELSE ParseEntries(Tail(xml), fullPrefix, Append(objects, step.object),
                             IF step.object.isDirectory
                             THEN Append(prefixes, step.object.key) ELSE prefixes)

parsePropfindResponse(xml, fullPrefix) == ParseEntries(xml, fullPrefix, << >>, << >>)

(* ------------------------------- inputs -------------------------------- *)

Endpoints == {<<"h">>, <<"h", "/">>}

BasePaths ==
  {<< >>} \cup {<<b>> : b \in {Str0, <<"/">>, <<"a">>, <<"/", "a", "/">>, <<"/", "/", "a">>}}

Keys == Strs(MaxKeyLen)

DestKeys == Strs(MaxKeyLen - 1)

ListPrefixes == {Str0, <<"a">>, <<"a", "/">>, <<"/", "a">>}

Statuses == {199, 200, 201, 204, 207, 299, 300, 404, 500}

ContentTypes == {<< >>, <<<<"t", "x", "t">>>>}

PartNumbers == {1, 12}

Times == {1, 2}

Texts == {Str0, <<"n", "o">>}

EscapedReport ==
  <<"&", "a", "m", "p", ";", "l", "t", ";", "r", "e", "p", "o", "r", "t",
    "&", "a", "m", "p", ";", "g", "t", ";">>

CollectionTag == <<"<", "D", ":">> \o Collection \o <<"/", ">">>

Entry(href, rt, dn, cl, lm) ==
  [href |-> href, resourcetype |-> rt, displayname |-> dn,
   getcontentlength |-> cl, getlastmodified |-> lm]

\* The <D:response> blocks a server may send for a PROPFIND of fullPrefix: the
\* directory itself (href with and without its trailing separator), children,
\* and blocks with a field missing or an href that is no valid URI escape.
Entries(fullPrefix) ==
  LET self == <<"/">> \o fullPrefix
  IN  { Entry(<<self>>, <<CollectionTag>>, <<<<"d">>>>, << >>, << >>),
        Entry(<<StripTrailingSlash(self)>>, <<CollectionTag>>, <<<<"d">>>>, << >>, << >>),
        Entry(<<self \o <<"b", "/">>>>, <<CollectionTag>>, <<<<"b">>>>, <<<<"7">>>>, <<<<"t">>>>),
        Entry(<<self \o <<"a">>>>, << >>, <<<<"a">>>>, <<<<"1", "2", "0">>>>, <<<<"t">>>>),
        Entry(<<self \o <<"A">>>>, <<Str0>>, <<<<"A">>>>, << >>, << >>),
        Entry(<< >>, << >>, <<<<"x">>>>, <<<<"5">>>>, << >>),
        Entry(<<self \o <<"n">>>>, << >>, << >>, <<<<"5">>>>, << >>),
        Entry(<<self \o <<"%">>>>, << >>, <<<<"z">>>>, <<<<"5">>>>, << >>),
        Entry(<<self \o <<"r">>>>, << >>, <<EscapedReport>>, <<<<"x">>>>, << >>) }

RECURSIVE SeqsOfLen(_, _)
SeqsOfLen(S, n) ==
  IF n = 0 THEN {<< >>}
  ELSE {Append(s, e) : s \in SeqsOfLen(S, n - 1), e \in S}

Bodies(fullPrefix) == UNION {SeqsOfLen(Entries(fullPrefix), n) : n \in 0..MaxEntries}

HeadHeaders ==
  { [cl |-> << >>, ct |-> << >>, lm |-> << >>],
    [cl |-> <<<<"1", "2">>>>, ct |-> <<<<"t", "x", "t">>>>, lm |-> <<<<"t">>>>] }

NoHeaders == [cl |-> << >>, ct |-> << >>, lm |-> << >>]

(* ------------------------------ requests ------------------------------- *)

Request(cfg, method, url, contentType, depth, destination, overwrite, body) ==
  [method |-> method, url |-> url, Authorization |-> getBasicAuth(cfg),
   ContentType |-> contentType, Depth |-> depth, Destination |-> destination,
   Overwrite |-> overwrite, body |-> body]

NoArgs == [key |-> Str0, destKey |-> Str0, contentType |-> << >>, partNumber |-> 0]

\* listObjects: the prefix with its trailing "/" appended.
NormalizedPrefix(prefix) ==
  IF prefix # Str0 /\ ~EndsWith(prefix, <<"/">>) THEN prefix \o <<"/">> ELSE prefix

FullPrefix(cfg, prefix) == getFullPath(cfg.basePath, NormalizedPrefix(prefix))

\* createFolder: the path with its trailing "/" appended.
NormalizedFolder(folderPath) ==
  IF EndsWith(folderPath, <<"/">>) THEN folderPath ELSE folderPath \o <<"/">>

RECURSIVE ToDecimal(_)
ToDecimal(n) ==
  IF n < 10 THEN <<HexDigits[n + 1]>>
  ELSE Append(ToDecimal(n \div 10), HexDigits[(n % 10) + 1])

(* ------------------------------ outcomes ------------------------------- *)

NoOutcome == [kind |-> "none"]

Return(value) == [kind |-> "return", result |-> "value", value |-> value]

ReturnNull == [kind |-> "return", result |-> "null"]

ReturnVoid == [kind |-> "return", result |-> "void"]

Error(what, status, text) == [what |-> what, status |-> status, text |-> text]

TransportError == Error("fetch failed", << >>, << >>)

BodyError == Error("body failed", << >>, << >>)

Methods ==
  [listObjects |-> "PROPFIND", getObject |-> "GetObject", putObject |-> "PutObject",
   deleteObject |-> "DeleteObject", createFolder |-> "MKCOL", copyObject |-> "COPY",
   headObject |-> "HeadObject"]

\* The Error thrown inside the try block for a refused status.
StatusError(o, status, text) == Error(Methods[o], <<status>>, text)

\* A catch block that lets the caught error through as it is.
RethrowRaw(o, error) == [kind |-> "throw", operation |-> error.what, cause |-> error]

\* catch (error) { throw new Error("WebDAV <operation> failed: " + error.message) }
Rethrow(o, error) == [kind |-> "throw", operation |-> o, cause |-> error]

Ok(status) == status >= 200 /\ status <= 299

\* The status test of each method: TRUE when the method does not throw on it.
StatusPasses(o, status) ==
  CASE o = "listObjects"  -> ~(~Ok(status) /\ status # 207)
    [] o = "getObject"    -> ~(~Ok(status))
    [] o = "putObject"    -> ~(~Ok(status))
    [] o = "deleteObject" -> ~(~Ok(status) /\ status # 204)
    [] o = "createFolder" -> ~(~Ok(status) /\ status # 201)
    [] o = "copyObject"   -> ~(~Ok(status) /\ status # 201 /\ status # 204)
    [] o = "headObject"   -> ~(~Ok(status))

(* ------------------------------ the calls ------------------------------ *)

Init ==
  /\ config \in [endpoint : Endpoints, username : {"u"}, password : {"p"},
                 basePath : BasePaths]
  /\ pc = "idle"
  /\ op = "none"
  /\ args = NoArgs
  /\ requests = << >>
  /\ response = << >>
  /\ outcome = NoOutcome

\* A method up to its await fetch(url, ...).
Send(o, a, request) ==
  /\ pc = "idle"
  /\ op' = o
  /\ args' = a
  /\ requests' = Append(requests, request)
  /\ pc' = "awaitFetch"
  /\ UNCHANGED <<config, response, outcome>>

\* A method that returns without awaiting anything.
Answer(o, a, value) ==
  /\ pc = "idle"
  /\ op' = o
  /\ args' = a
  /\ pc' = "done"
  /\ outcome' = Return(value)
  /\ UNCHANGED <<config, requests, response>>

listObjects(prefix) ==
  LET fullPrefix == FullPrefix(config, prefix)
      endpoint == normalizeEndpoint(config.endpoint)
      url == IF fullPrefix # Str0 THEN endpoint \o <<"/">> \o fullPrefix ELSE endpoint
  IN  Send("listObjects", [NoArgs EXCEPT !.key = prefix],
           Request(config, "PROPFIND", url, <<<<"application/xml">>>>, <<"1">>,
                   << >>, << >>, "propfind xml"))

getObject(key) ==
  Send("getObject", [NoArgs EXCEPT !.key = key],
       Request(config, "GET", UrlOf(config, getFullPath(config.basePath, key)),
               << >>, << >>, << >>, << >>, "none"))

putObject(key, contentType) ==
  Send("putObject", [NoArgs EXCEPT !.key = key, !.contentType = contentType],
       Request(config, "PUT", UrlOf(config, getFullPath(config.basePath, key)),
               IF contentType # << >> /\ contentType[1] # Str0
               THEN contentType ELSE <<OctetStream>>,
               << >>, << >>, << >>, "bytes"))

deleteObject(key) ==
  Send("deleteObject", [NoArgs EXCEPT !.key = key],
       Request(config, "DELETE", UrlOf(config, getFullPath(config.basePath, key)),
               << >>, << >>, << >>, << >>, "none"))

createFolder(folderPath) ==
  Send("createFolder", [NoArgs EXCEPT !.key = folderPath],
       Request(config, "MKCOL",
               UrlOf(config, getFullPath(config.basePath, NormalizedFolder(folderPath))),
               << >>, << >>, << >>, << >>, "none"))

copyObject(sourceKey, destKey) ==
  LET sourceUrl == UrlOf(config, getFullPath(config.basePath, sourceKey))
      destUrl == UrlOf(config, getFullPath(config.basePath, destKey))
  IN  Send("copyObject", [NoArgs EXCEPT !.key = sourceKey, !.destKey = destKey],
           Request(config, "COPY", destUrl, << >>, << >>, <<destUrl>>, <<"F">>, "none"))

headObject(key) ==
  Send("headObject", [NoArgs EXCEPT !.key = key],
       Request(config, "HEAD", UrlOf(config, getFullPath(config.basePath, key)),
               << >>, << >>, << >>, << >>, "none"))

initiateMultipartUpload(key, now) ==
  Answer("initiateMultipartUpload", [NoArgs EXCEPT !.key = key],
         [prefix |-> "webdev-", now |-> now])

uploadPart(key, partNumber) ==
  Answer("uploadPart", [NoArgs EXCEPT !.key = key, !.partNumber = partNumber],
         ToDecimal(partNumber))

completeMultipartUpload(key) ==
  /\ pc = "idle"
  /\ op' = "completeMultipartUpload"
  /\ args' = [NoArgs EXCEPT !.key = key]
  /\ pc' = "done"
  /\ outcome' = ReturnVoid
  /\ UNCHANGED <<config, requests, response>>

abortMultipartUpload(key) ==
  /\ pc = "idle"
  /\ op' = "abortMultipartUpload"
  /\ args' = [NoArgs EXCEPT !.key = key]
  /\ pc' = "done"
  /\ outcome' = ReturnVoid
  /\ UNCHANGED <<config, requests, response>>

getSignedUrl(key) ==
  Answer("getSignedUrl", [NoArgs EXCEPT !.key = key],
         UrlOf(config, getFullPath(config.basePath, key)))

getSignedUploadPartUrl(key, partNumber) ==
  Answer("getSignedUploadPartUrl",
         [NoArgs EXCEPT !.key = key, !.partNumber = partNumber],
         UrlOf(config, getFullPath(config.basePath, key)))

(* --------------------------- the settlements --------------------------- *)

HeadResult(headers) ==
  [contentLength |-> parseInt(IF headers.cl # << >> /\ headers.cl[1] # Str0
                              THEN headers.cl[1] ELSE <<"0">>),
   contentType |-> IF headers.ct # << >> /\ headers.ct[1] # Str0
                   THEN headers.ct[1] ELSE OctetStream,
   lastModified |-> IF headers.lm # << >> THEN headers.lm[1] ELSE Str0]

\* From the response of fetch to the next await or to the method's end.
AfterFetch(o, resp) ==
  CASE o = "listObjects" ->
         IF ~StatusPasses(o, resp.status)
         THEN [pc |-> "done", outcome |-> Rethrow(o, StatusError(o, resp.status, << >>))]
         ELSE [pc |-> "awaitText", outcome |-> NoOutcome]
    [] o = "getObject" ->
         IF ~StatusPasses(o, resp.status)
         THEN [pc |-> "done", outcome |-> Rethrow(o, StatusError(o, resp.status, << >>))]
         ELSE [pc |-> "done", outcome |-> Return(resp)]
    [] o \in {"putObject", "deleteObject", "createFolder", "copyObject"} ->
         IF ~StatusPasses(o, resp.status)
         THEN [pc |-> "awaitText", outcome |-> NoOutcome]
         ELSE [pc |-> "done", outcome |-> ReturnVoid]
    [] o = "headObject" ->
         IF resp.status = 404 THEN [pc |-> "done", outcome |-> ReturnNull]
         ELSE IF ~StatusPasses(o, resp.status)
         THEN [pc |-> "done", outcome |-> Rethrow(o, StatusError(o, resp.status, << >>))]
         ELSE [pc |-> "done", outcome |-> Return(HeadResult(resp.headers))]

\* From the text of the response body to the method's end.
AfterText(o, cfg, a, resp, text) ==
  IF o = "listObjects"
  THEN LET parsed == parsePropfindResponse(text, FullPrefix(cfg, a.key))
       IN  IF parsed.threw THEN Rethrow(o, parsed.error) ELSE Return(parsed.value)
  ELSE Rethrow(o, StatusError(o, resp.status, <<text>>))

\* A catch block that sends the request a second time before giving up.
OnFetchRejectedRetry(o, reqs) ==
  IF Len(reqs) < 2
  THEN [pc |-> "awaitFetch", outcome |-> NoOutcome, requests |-> Append(reqs, reqs[1])]
  ELSE [pc |-> "done", outcome |-> Rethrow(o, TransportError), requests |-> reqs]

\* fetch rejects: the catch block rethrows; no second request.
OnFetchRejected(o, reqs) ==
  [pc |-> "done", outcome |-> Rethrow(o, TransportError), requests |-> reqs]

FetchResolves(status, headers) ==
  /\ pc = "awaitFetch"
  /\ LET resp == [status |-> status, headers |-> headers, body |-> << >>]
         next == AfterFetch(op, resp)
     IN  /\ response' = <<resp>>
         /\ pc' = next.pc
         /\ outcome' = next.outcome
  /\ UNCHANGED <<config, op, args, requests>>

FetchRejects ==
  /\ pc = "awaitFetch"
  /\ LET next == OnFetchRejected(op, requests)
     IN  /\ pc' = next.pc
         /\ outcome' = next.outcome
         /\ requests' = next.requests
  /\ UNCHANGED <<config, op, args, response>>

TextResolves(text) ==
  /\ pc = "awaitText"
  /\ response' = <<[response[1] EXCEPT !.body = <<text>>]>>
  /\ outcome' = AfterText(op, config, args, response[1], text)
  /\ pc' = "done"
  /\ UNCHANGED <<config, op, args, requests>>

TextRejects ==
  /\ pc = "awaitText"
  /\ outcome' = Rethrow(op, BodyError)
  /\ pc' = "done"
  /\ UNCHANGED <<config, op, args, requests, response>>

\* The caller takes the outcome; the client keeps nothing between calls.
Settle ==
  /\ pc = "done"
  /\ pc' = "idle"
  /\ op' = "none"
  /\ args' = NoArgs
  /\ requests' = << >>
  /\ response' = << >>
  /\ outcome' = NoOutcome
  /\ UNCHANGED config

Next ==
  \/ \E prefix \in ListPrefixes : listObjects(prefix)
  \/ \E key \in Keys : getObject(key)
  \/ \E key \in Keys, contentType \in ContentTypes : putObject(key, contentType)
  \/ \E key \in Keys : deleteObject(key)
  \/ \E key \in Keys : createFolder(key)
  \/ \E sourceKey \in Keys, destKey \in DestKeys : copyObject(sourceKey, destKey)
  \/ \E key \in Keys : headObject(key)
  \/ \E key \in Keys, now \in Times : initiateMultipartUpload(key, now)
  \/ \E key \in Keys, partNumber \in PartNumbers : uploadPart(key, partNumber)
  \/ \E key \in Keys : completeMultipartUpload(key)
  \/ \E key \in Keys : abortMultipartUpload(key)
  \/ \E key \in Keys : getSignedUrl(key)
  \/ \E key \in Keys, partNumber \in PartNumbers : getSignedUploadPartUrl(key, partNumber)
  \/ \E status \in Statuses,
        headers \in (IF op = "headObject" THEN HeadHeaders ELSE {NoHeaders}) :
       FetchResolves(status, headers)
  \/ FetchRejects
  \/ /\ pc = "awaitText"
     /\ \E text \in (IF op = "listObjects"
                     THEN Bodies(FullPrefix(config, args.key)) ELSE Texts) :
          TextResolves(text)
  \/ TextRejects
  \/ Settle

Spec == Init /\ [][Next]_vars

(* ------------------------------------------------------------------------ *)
(* Properties                                                               *)
(* ------------------------------------------------------------------------ *)

RequestOps ==
  {"listObjects", "getObject", "putObject", "deleteObject", "createFolder",
   "copyObject", "headObject"}

LocalOps ==
  {"initiateMultipartUpload", "uploadPart", "completeMultipartUpload",
   "abortMultipartUpload", "getSignedUrl", "getSignedUploadPartUrl"}

\* The paths the current call hands to the path resolver.
ResolverInputs ==
  CASE op = "listObjects"  -> {NormalizedPrefix(args.key)}
    [] op = "createFolder" -> {NormalizedFolder(args.key)}
    [] op = "copyObject"   -> {args.key, args.destKey}
    [] op \in {"getObject", "putObject", "deleteObject", "headObject",
               "getSignedUrl", "getSignedUploadPartUrl"} -> {args.key}
    [] OTHER -> {}

Doubled == <<"/", "/">>

Resolve(path) == getFullPath(config.basePath, path)

ConfiguredBase == IF config.basePath = << >> THEN Str0 ELSE config.basePath[1]

\* C1 as stated: for every basePath and key the resolved wire path holds no
\* doubled separator and no leading separator.
C1_NoDoubledNoLeading ==
  \A path \in ResolverInputs :
    /\ ~Contains(Resolve(path), Doubled)
    /\ ~StartsWith(Resolve(path), <<"/">>)

\* C1 amended: when neither the basePath nor the key holds a doubled separator,
\* the resolved wire path holds no doubled separator and no leading separator;
\* and for every basePath and key it is the basePath without one leading and one
\* trailing separator and the key without one leading separator, joined by
\* exactly one separator when that basePath is not empty.
C1_JoinOfCleanInputs ==
  \A path \in ResolverInputs :
    LET base == NormBasePath(config.basePath)
        clean == StripLeadingSlash(path)
    IN  /\ Len(Resolve(path)) = Len(base) + Len(clean) + (IF base = Str0 THEN 0 ELSE 1)
        /\ StartsWith(Resolve(path), base)
        /\ EndsWith(Resolve(path), clean)
        /\ base # Str0 => Resolve(path)[Len(base) + 1] = "/"
        /\ (~Contains(ConfiguredBase, Doubled) /\ ~Contains(path, Doubled))
             => /\ ~Contains(Resolve(path), Doubled)
                /\ ~StartsWith(Resolve(path), <<"/">>)

C1_Witness ==
  /\ pc = "awaitFetch"
  /\ op = "getObject"
  /\ config.basePath = <<<<"/", "a", "/">>>>
  /\ args.key = <<"/", "a", "/">>
  /\ Resolve(args.key) = <<"a", "/", "a", "/">>

\* C8 as stated: resolving an already resolved path again gives the same path.
C8_Idempotent ==
  \A path \in ResolverInputs : Resolve(Resolve(path)) = Resolve(path)

\* C8 amended: resolving an already resolved path again gives the same path
\* exactly when the normalized basePath is empty and the resolved path has no
\* leading separator; with a basePath the second resolution prefixes it again.
C8_IdempotentIffNoBase ==
  \A path \in ResolverInputs :
    /\ (Resolve(Resolve(path)) = Resolve(path))
         <=> (NormBasePath(config.basePath) = Str0 /\ ~StartsWith(Resolve(path), <<"/">>))
    /\ (NormBasePath(config.basePath) # Str0 /\ ~StartsWith(Resolve(path), <<"/">>))
         => Resolve(Resolve(path)) = NormBasePath(config.basePath) \o <<"/">> \o Resolve(path)

C8_Witness ==
  /\ pc = "awaitFetch"
  /\ op = "headObject"
  /\ config.basePath = <<<<"a">>>>
  /\ args.key = <<"a">>
  /\ Resolve(args.key) = <<"a", "/", "a">>
  /\ Resolve(Resolve(args.key)) = <<"a", "/", "a", "/", "a">>

(* The listing call at its end, with the body it read. *)

ListRead ==
  /\ op = "listObjects"
  /\ pc = "done"
  /\ response # << >>
  /\ response[1].body # << >>

ListBody == response[1].body[1]

ListPrefix == FullPrefix(config, args.key)

ListReturned == ListRead /\ outcome.kind = "return"

\* An entry that describes the listed directory: its decoded href without the
\* leading separator is the resolved prefix, with or without trailing separator.
DescribesListedDirectory(entry) ==
  /\ entry.href # << >>
  /\ decodeURIComponent(decodeXml(entry.href[1])).ok
  /\ StripLeadingSlash(decodeURIComponent(decodeXml(entry.href[1])).val)
       \in {ListPrefix, StripTrailingSlash(ListPrefix)}

NamesListed == {outcome.value.objects[i].name : i \in DOMAIN outcome.value.objects}

\* C2 as stated: the listing never holds the entry of the listed directory
\* itself, whether its href ends with a separator or not.
C2_SelfEntryExcluded ==
  ListReturned =>
    \A i \in DOMAIN ListBody :
      (DescribesListedDirectory(ListBody[i]) /\ ListBody[i].displayname # << >>)
        => /\ EntryStep(ListBody[i], ListPrefix).act = "continue"
           /\ (\A j \in DOMAIN ListBody : j # i => ListBody[j].displayname # ListBody[i].displayname)
                => decodeXml(ListBody[i].displayname[1]) \notin NamesListed

\* The success statuses of each operation, as the interface documents them.
DocumentedSuccess(o, status) ==
  CASE o = "listObjects" -> status = 207 \/ Ok(status)
    [] o \in {"getObject", "putObject", "headObject"} -> Ok(status)
    [] o = "deleteObject" -> Ok(status) \/ status = 204
    [] o = "createFolder" -> Ok(status) \/ status = 201
    [] o = "copyObject" -> Ok(status) \/ status = 201 \/ status = 204

\* C3 as stated: once the response has arrived (no transport failure of the
\* request or of the body), the call succeeds exactly when the status is in the
\* operation's documented set, and fails otherwise, except that head on 404
\* gives the absent result; nothing else gives the absent result.
C3_StatusDecidesOutcome ==
  (/\ pc = "done"
   /\ op \in RequestOps
   /\ response # << >>
   /\ ~(outcome.kind = "throw" /\ outcome.cause = BodyError))
  => LET status == response[1].status
     IN  IF DocumentedSuccess(op, status)
         THEN outcome.kind = "return" /\ outcome.result # "null"
         ELSE IF op = "headObject" /\ status = 404
              THEN outcome.kind = "return" /\ outcome.result = "null"
              ELSE outcome.kind = "throw"

\* C4: a call of one of the seven requesting operations issues exactly one
\* request, whatever its outcome, and ends with exactly one outcome; the
\* multipart operations and getSignedUrl issue none.
C4_ExactlyOneRequest ==
  /\ Len(requests) <= 1
  /\ op \in RequestOps => Len(requests) = 1
  /\ op \in LocalOps => Len(requests) = 0 /\ pc = "done" /\ outcome.kind = "return"
  /\ pc = "done" <=> outcome.kind \in {"return", "throw"}
  /\ pc \in {"awaitFetch", "awaitText"} => op \in RequestOps /\ outcome = NoOutcome

C4_Witness ==
  /\ pc = "done"
  /\ op = "putObject"
  /\ response = << >>
  /\ outcome.kind = "throw"
  /\ outcome.cause = TransportError
  /\ Len(requests) = 1
  /\ requests[1].method = "PUT"

\* C5: every failure that leaves a call is the failure of that operation,
\* naming the operation and the cause: the transport error of fetch, the
\* refused status (with the body text where it is read), the error of reading
\* the body, or the error raised by the listing parse.
C5_UniformFailure ==
  outcome.kind = "throw" =>
    /\ pc = "done"
    /\ outcome.operation = op
    /\ op \in RequestOps
    /\ IF response = << >> THEN outcome.cause = TransportError
       ELSE IF StatusPasses(op, response[1].status)
            THEN op = "listObjects" /\ outcome.cause \in {BodyError, URIError}
            ELSE \/ outcome.cause = BodyError /\ op \notin {"listObjects", "getObject", "headObject"}
                 \/ /\ outcome.cause.what = Methods[op]
                    /\ outcome.cause.status = <<response[1].status>>
                    /\ outcome.cause.text = response[1].body

C5_Witness ==
  /\ ListRead
  /\ outcome.kind = "throw"
  /\ outcome.operation = "listObjects"
  /\ outcome.cause = URIError

\* An entry that is complete: href and display name present, href decodable.
WellFormed(entry) ==
  /\ entry.href # << >>
  /\ entry.displayname # << >>
  /\ decodeXml(entry.displayname[1]) # Str0
  /\ decodeURIComponent(decodeXml(entry.href[1])).ok

Malformed(entry) ==
  \/ entry.href = << >>
  \/ entry.displayname = << >>
  \/ ~decodeURIComponent(decodeXml(entry.href[1])).ok

\* C6 as stated: a malformed entry never aborts the listing: it is skipped, an
\* entry without content length gets size 0, and every well-formed entry of the
\* body that is not the listed directory appears in the listing.
C6_MalformedEntrySkipped ==
  ListRead =>
    /\ outcome.kind = "return"
    /\ \A i \in DOMAIN ListBody :
         LET entry == ListBody[i]
         IN  /\ Malformed(entry) /\ entry.displayname # << >>
                  => decodeXml(entry.displayname[1]) \notin NamesListed
             /\ WellFormed(entry) /\ ~DescribesListedDirectory(entry)
                  => \E j \in DOMAIN outcome.value.objects :
                       /\ outcome.value.objects[j].name = decodeXml(entry.displayname[1])
                       /\ entry.getcontentlength = << >> => outcome.value.objects[j].size = 0

\* C7: in a listing every directory comes before every file, and within the
\* directories and within the files the names are in non-decreasing order.
C7_DirectoriesFirstThenByName ==
  ListReturned =>
    \A i, j \in DOMAIN outcome.value.objects :
      i < j =>
        LET a == outcome.value.objects[i]
            b == outcome.value.objects[j]
        IN  /\ b.isDirectory => a.isDirectory
            /\ a.isDirectory = b.isDirectory => localeCompare(a.name, b.name) <= 0

C7_Witness ==
  /\ ListReturned
  /\ Len(ListBody) = 2
  /\ ListBody[1].resourcetype = << >>
  /\ ListBody[1].displayname = <<<<"a">>>>
  /\ ListBody[2].displayname = <<<<"b">>>>
  /\ Len(outcome.value.objects) = 2
  /\ outcome.value.objects[1].name = <<"b">>
  /\ outcome.value.objects[1].isDirectory
  /\ ~outcome.value.objects[2].isDirectory

Entities == <<AMP, LT, GT, QUOT, APOS>>

EntityChars == <<"&", "<", ">", "\"", "'">>

\* One pass over the text: each entity reference is replaced by its character
\* and the scan goes on after it, so no character is decoded twice.
RECURSIVE UnescapeOnce(_, _)
UnescapeOnce(s, acc) ==
  IF s = << >> THEN acc
  ELSE IF \E k \in 1..5 : StartsWith(s, Entities[k])
       THEN LET k == CHOOSE k \in 1..5 : StartsWith(s, Entities[k])
            IN  UnescapeOnce(SubSeq(s, Len(Entities[k]) + 1, Len(s)),
                             Append(acc, EntityChars[k]))
       ELSE UnescapeOnce(Tail(s), Append(acc, Head(s)))

C10_CopyRequestsSource ==
  (op = "copyObject" /\ Len(requests) = 1) =>
    /\ requests[1].method = "COPY"
    /\ requests[1].url = UrlOf(config, Resolve(args.key))
    /\ requests[1].Destination = <<UrlOf(config, Resolve(args.destKey))>>
    /\ requests[1].Overwrite = <<"F">>
    /\ requests[1].url = requests[1].Destination[1]
         => Resolve(args.key) = Resolve(args.destKey)

====
